---------------------------- MODULE Spec2Model ----------------------------
(***************************************************************************)
(* Model of helixfold/data/templates_quat_affine.py: the quaternion /      *)
(* rotation-matrix codec, the QuatAffine frame class and the canonical     *)
(* backbone-frame builders.                                                *)
(*                                                                         *)
(* Numbers.  The source computes in floating point.  The model computes    *)
(* in exact rational arithmetic: a number is a pair <<n, d>> with d > 0    *)
(* and gcd(n, d) = 1.  Square roots are taken only of rational squares;    *)
(* the inputs of every specification are drawn from grids on which each    *)
(* square root the code takes is exact.  Equalities established here are   *)
(* therefore equalities of the formulas the code evaluates; in the running *)
(* program they hold up to floating-point round-off.                       *)
(*                                                                         *)
(* The additive 1e-20 terms of the frame builders are modelled by what     *)
(* they do in floating point on such grids: added to a sum that is not     *)
(* zero they are absorbed by rounding, added to a zero sum they leave a    *)
(* tiny non-zero denominator (1e-10 or 1e-20), written Tiny(e).            *)
(*                                                                         *)
(* Arrays.  An array with leading (batch) dimensions is a sequence of its  *)
(* slices along the first axis; Python's None is the empty sequence.       *)
(* Array indices of the source are 0-based, those of the model 1-based.    *)
(***************************************************************************)
EXTENDS Integers, Sequences, FiniteSets, TLC

VARIABLES
    args,    \* the arguments of the last call
    op,      \* the name of the last function or method called
    ret,     \* what the last call returned, or the exception it raised
    self,    \* the QuatAffine object the methods are called on (None: none yet)
    base,    \* the frame the chain of derived frames started from
    trail    \* the calls that derived self from base, oldest first

vars == <<args, op, ret, self, base, trail>>

-----------------------------------------------------------------------------
(* Bounds of the model.                                                    *)

\* Integer quaternion components range over -MaxQuat..MaxQuat.
MaxQuat == 2
\* Coordinates of C relative to CA range over -MaxCoord..MaxCoord.
MaxCoord == 4
\* Coordinates of N relative to CA range over -MaxCoordN..MaxCoordN.
MaxCoordN == 1
\* A frame is derived from its base by at most MaxOps calls.
MaxOps == 2

-----------------------------------------------------------------------------
(* Exact rational arithmetic standing for numpy's float arithmetic.        *)

Abs(n) == IF n < 0 THEN -n ELSE n

RECURSIVE GCD(_, _)
GCD(a, b) == IF b = 0 THEN a ELSE GCD(b, a % b)

\* The rational n/d in lowest terms with a positive denominator (d # 0).
Rat(n, d) ==
    LET g == GCD(Abs(n), Abs(d))
        s == IF d < 0 THEN -1 ELSE 1
    IN  <<s * (n \div g), s * (d \div g)>>

RInt(k) == <<k, 1>>
Zero == RInt(0)
One  == RInt(1)

RAdd(x, y) == Rat(x[1] * y[2] + y[1] * x[2], x[2] * y[2])
RNeg(x)    == <<-x[1], x[2]>>
RSub(x, y) == RAdd(x, RNeg(y))
RMul(x, y) == Rat(x[1] * y[1], x[2] * y[2])
RDiv(x, y) == Rat(x[1] * y[2], x[2] * y[1])
RSq(x)     == RMul(x, x)
RPos(x)    == x[1] > 0

RECURSIVE SqrtSearch(_, _, _)
SqrtSearch(n, lo, hi) ==
    IF lo >= hi THEN lo
    ELSE LET mid == (lo + hi + 1) \div 2
         IN  IF mid * mid <= n THEN SqrtSearch(n, mid, hi)
                               ELSE SqrtSearch(n, lo, mid - 1)

\* floor(sqrt(n)) for 0 <= n.
ISqrt(n) == SqrtSearch(n, 0, IF n < 46340 THEN n ELSE 46340)

IsSquare(n) == n >= 0 /\ ISqrt(n) * ISqrt(n) = n

\* Whether np.sqrt(x) is exact on the rational x.
ExactSqrt(x) == IsSquare(x[1]) /\ IsSquare(x[2])

\* np.sqrt(x) on a rational square x.
RSqrt(x) == <<ISqrt(x[1]), ISqrt(x[2])>>

\* The float 1e-e: a positive number below every grid value.  It only ever
\* appears as a denominator.
Tiny(e) == <<0, e>>
IsTiny(x) == x[1] = 0 /\ x[2] # 1

\* np.sqrt(s + 1e-20), the epsilon inside the root: absorbed unless s = 0.
SqrtEpsInside(s) == IF s = Zero THEN Tiny(10) ELSE RSqrt(s)

\* np.sqrt(s) + 1e-20, the epsilon outside the root: absorbed unless s = 0.
SqrtEpsOutside(s) == IF s = Zero THEN Tiny(20) ELSE RSqrt(s)

\* x / nrm for a denominator that may be tiny: 0 / tiny = 0; a non-zero
\* numerator over a tiny denominator is a float far outside the grid.
FDiv(x, nrm) ==
    IF IsTiny(nrm)
    THEN IF x = Zero THEN Zero ELSE "overflow"
    ELSE RDiv(x, nrm)

\* Sum of a sequence of rationals.
RECURSIVE RSum(_)
RSum(s) == IF s = <<>> THEN Zero ELSE RAdd(Head(s), RSum(Tail(s)))

None == <<>>

\* The array a function over 1..n stands for, with its elements computed once.
Arr(f) == f \o <<>>


\* A call's outcome: the value it returned, or the exception it raised.
Ok(v)    == [exc |-> "", val |-> v]
Raise(e) == [exc |-> e, val |-> None]

\* The value of a local variable: S is the one-element set of the expression
\* assigned to it, which is evaluated once, before the statements that read it.
Only(S) == CHOOSE v \in S : TRUE

-----------------------------------------------------------------------------
(* numpy's elementwise arithmetic.  r is the number of array dimensions    *)
(* the operation runs over, which numpy reads off the arrays' shapes.      *)

Scalar2(o, x, y) ==
    CASE o = "+" -> RAdd(x, y)
      [] o = "-" -> RSub(x, y)
      [] o = "*" -> RMul(x, y)
      [] o = "/" -> FDiv(x, y)

\* a o b with numpy broadcasting: an axis of length 1 is stretched.
RECURSIVE Bin(_, _, _, _)
Bin(o, a, b, r) ==
    IF r = 0 THEN Scalar2(o, a, b)
    ELSE LET n == IF Len(a) = 1 THEN Len(b) ELSE Len(a)
         IN  Arr([k \in 1..n |-> Bin(o, a[IF Len(a) = 1 THEN 1 ELSE k],
                                    b[IF Len(b) = 1 THEN 1 ELSE k], r - 1)])

Scalar1(o, x) ==
    CASE o = "neg"          -> RNeg(x)
      [] o = "sq"           -> RSq(x)
      [] o = "sqrt"         -> RSqrt(x)
      [] o = "sqrt_eps_in"  -> SqrtEpsInside(x)
      [] o = "sqrt_eps_out" -> SqrtEpsOutside(x)
      [] o = "zeros_like"   -> Zero
      [] o = "ones_like"    -> One

RECURSIVE Un(_, _, _)
Un(o, a, r) ==
    IF r = 0 THEN Scalar1(o, a)
    ELSE Arr([k \in 1..Len(a) |-> Un(o, a[k], r - 1)])

\* k * a for a Python scalar k.
RECURSIVE Scale(_, _, _)
Scale(k, a, r) ==
    IF r = 0 THEN RMul(k, a)
    ELSE Arr([i \in 1..Len(a) |-> Scale(k, a[i], r - 1)])

\* a[..., i] for an array with r leading dimensions (i is 1-based).
RECURSIVE Idx1(_, _, _)
Idx1(a, r, i) ==
    IF r = 0 THEN a[i]
    ELSE Arr([k \in 1..Len(a) |-> Idx1(a[k], r - 1, i)])

\* a[..., i, j] for an array with r leading dimensions.
RECURSIVE Idx2(_, _, _, _)
Idx2(a, r, i, j) ==
    IF r = 0 THEN a[i][j]
    ELSE Arr([k \in 1..Len(a) |-> Idx2(a[k], r - 1, i, j)])

\* np.stack(list, axis=-1) of arrays with r dimensions each.
RECURSIVE StackLast(_, _)
StackLast(list, r) ==
    IF r = 0 THEN list
    ELSE Arr([k \in 1..Len(list[1]) |->
            StackLast(Arr([j \in 1..Len(list) |-> list[j][k]]), r - 1)])

\* np.sum(a, axis=-1) for an array with r leading dimensions.
RECURSIVE SumLast(_, _)
SumLast(a, r) ==
    IF r = 0 THEN RSum(a)
    ELSE Arr([k \in 1..Len(a) |-> SumLast(a[k], r - 1)])

\* a.reshape(a.shape[:-1] + (3, 3)) for an array (..., 9) with r leading dimensions.
RECURSIVE Reshape33(_, _)
Reshape33(a, r) ==
    IF r = 0 THEN Arr([i \in 1..3 |-> Arr([j \in 1..3 |-> a[3 * (i - 1) + j]])])
    ELSE Arr([k \in 1..Len(a) |-> Reshape33(a[k], r - 1)])

\* np.expand_dims(a, axis=-(d+1)) where the d trailing dimensions of a follow
\* r leading ones: every (d-dimensional) element is wrapped in an axis of length 1.
RECURSIVE ExpandDims(_, _)
ExpandDims(a, r) ==
    IF r = 0 THEN <<a>>
    ELSE Arr([k \in 1..Len(a) |-> ExpandDims(a[k], r - 1)])

\* a.shape[-1] and a.shape[-2] for an array whose last axis is at depth r + 1.
RECURSIVE ShapeLast(_, _)
ShapeLast(a, r) == IF r = 0 THEN Len(a) ELSE ShapeLast(a[1], r - 1)

\* a.shape[:r], the leading dimensions.
RECURSIVE ShapeLead(_, _)
ShapeLead(a, r) == IF r = 0 THEN <<>> ELSE <<Len(a)>> \o ShapeLead(a[1], r - 1)

-----------------------------------------------------------------------------
(* Rotation helpers shared by the frame class and the frame builders.      *)

\* The documented array layout (batch, N_res, ...): two leading dimensions.
LeadRank == 2

\* apply_rot_to_vec(rot, vec, unstack): rot has r leading dimensions before its
\* 3x3 block; vec is a list of three arrays, or with unstack an array (..., 3).
apply_rot_to_vec(rot, vec, unstack, r) ==
    LET x == IF unstack THEN Idx1(vec, r, 1) ELSE vec[1]
        y == IF unstack THEN Idx1(vec, r, 2) ELSE vec[2]
        z == IF unstack THEN Idx1(vec, r, 3) ELSE vec[3]
    IN  Arr([i \in 1..3 |->
            Bin("+", Bin("+", Bin("*", Idx2(rot, r, i, 1), x, r),
                              Bin("*", Idx2(rot, r, i, 2), y, r), r),
                     Bin("*", Idx2(rot, r, i, 3), z, r), r)])

\* apply_rot_to_vec_np(rot, vec, unstack): rot is indexed rot[i][j] first, so it
\* is laid out (3, 3, batch); vec with unstack is an array (batch, 3).
apply_rot_to_vec_np(rot, vec, unstack) ==
    LET x == IF unstack THEN Idx1(vec, 1, 1) ELSE vec[1]
        y == IF unstack THEN Idx1(vec, 1, 2) ELSE vec[2]
        z == IF unstack THEN Idx1(vec, 1, 3) ELSE vec[3]
    IN  Arr([i \in 1..3 |->
            Bin("+", Bin("+", Bin("*", rot[i][1], x, 1),
                              Bin("*", rot[i][2], y, 1), 1),
                     Bin("*", rot[i][3], z, 1), 1)])

\* apply_inverse_rot_to_vec without the transposition: rot times vec.
apply_inverse_rot_to_vec_untransposed(rot, vec, r) ==
    Arr([j \in 1..3 |->
        Bin("+", Bin("+", Bin("*", Idx2(rot, r, j, 1), vec[1], r),
                          Bin("*", Idx2(rot, r, j, 2), vec[2], r), r),
                 Bin("*", Idx2(rot, r, j, 3), vec[3], r), r)])

\* apply_inverse_rot_to_vec(rot, vec): the transpose of rot times vec.
apply_inverse_rot_to_vec(rot, vec, r) ==
    Arr([j \in 1..3 |->
        Bin("+", Bin("+", Bin("*", Idx2(rot, r, 1, j), vec[1], r),
                          Bin("*", Idx2(rot, r, 2, j), vec[2], r), r),
                 Bin("*", Idx2(rot, r, 3, j), vec[3], r), r)])

\* _multiply(a, b): the matrix product a b over LeadRank leading dimensions.
\* rows is the list (row0, row1, row2), stacked on axis -2.
_multiply(a, b) ==
    Only({ Arr([k \in 1..Len(rows[1]) |-> Arr([m \in 1..Len(rows[1][k]) |->
               <<rows[1][k][m], rows[2][k][m], rows[3][k][m]>>])]) :
           rows \in { Arr([i \in 1..3 |-> StackLast(Arr([j \in 1..3 |->
               Bin("+", Bin("+",
                   Bin("*", Idx2(a, LeadRank, i, 1), Idx2(b, LeadRank, 1, j), LeadRank),
                   Bin("*", Idx2(a, LeadRank, i, 2), Idx2(b, LeadRank, 2, j), LeadRank),
                   LeadRank),
                   Bin("*", Idx2(a, LeadRank, i, 3), Idx2(b, LeadRank, 3, j), LeadRank),
                   LeadRank)]), LeadRank)]) } })

\* _multiply_np with the factors exchanged: the product b a.
_multiply_np_swapped(a, b) ==
    LET e(i, j) == Bin("+", Bin("+",
                       Bin("*", b[i][1], a[1][j], 1),
                       Bin("*", b[i][2], a[2][j], 1), 1),
                       Bin("*", b[i][3], a[3][j], 1), 1)
    IN  Arr([i \in 1..3 |-> Arr([j \in 1..3 |-> e(i, j)])])

\* _multiply_np(a, b): the matrix product of two arrays laid out (3, 3, batch).
_multiply_np(a, b) ==
    LET e(i, j) == Bin("+", Bin("+",
                       Bin("*", a[i][1], b[1][j], 1),
                       Bin("*", a[i][2], b[2][j], 1), 1),
                       Bin("*", a[i][3], b[3][j], 1), 1)
    IN  Arr([i \in 1..3 |-> Arr([j \in 1..3 |-> e(i, j)])])

-----------------------------------------------------------------------------
(* The quaternion / rotation-matrix codec.                                 *)

Z33 == <<<<0, 0, 0>>, <<0, 0, 0>>, <<0, 0, 0>>>>

\* QUAT_TO_ROT[i, j] (i, j in 1..4 for r, i, j, k): a 4 x 4 table of 3 x 3
\* coefficient matrices; the entries the source never assigns stay zero.
QUAT_TO_ROT ==
    << << <<<< 1, 0, 0>>, << 0, 1, 0>>, << 0, 0, 1>>>>,    \* rr
          <<<< 0, 0, 0>>, << 0, 0,-2>>, << 0, 2, 0>>>>,    \* ir
          <<<< 0, 0, 2>>, << 0, 0, 0>>, <<-2, 0, 0>>>>,    \* jr
          <<<< 0,-2, 0>>, << 2, 0, 0>>, << 0, 0, 0>>>> >>, \* kr
       << Z33,
          <<<< 1, 0, 0>>, << 0,-1, 0>>, << 0, 0,-1>>>>,    \* ii
          <<<< 0, 2, 0>>, << 2, 0, 0>>, << 0, 0, 0>>>>,    \* ij
          <<<< 0, 0, 2>>, << 0, 0, 0>>, << 2, 0, 0>>>> >>, \* ik
       << Z33, Z33,
          <<<<-1, 0, 0>>, << 0, 1, 0>>, << 0, 0,-1>>>>,    \* jj
          <<<< 0, 0, 0>>, << 0, 0, 2>>, << 0, 2, 0>>>> >>, \* jk
       << Z33, Z33, Z33,
          <<<<-1, 0, 0>>, << 0,-1, 0>>, << 0, 0, 1>>>> >> >> \* kk

\* QUAT_MULTIPLY[:, :, k] for k in 1..4, each indexed [i][j].
QUAT_MULTIPLY_K ==
    << <<<< 1, 0, 0, 0>>, << 0,-1, 0, 0>>, << 0, 0,-1, 0>>, << 0, 0, 0,-1>>>>,
       <<<< 0, 1, 0, 0>>, << 1, 0, 0, 0>>, << 0, 0, 0, 1>>, << 0, 0,-1, 0>>>>,
       <<<< 0, 0, 1, 0>>, << 0, 0, 0,-1>>, << 1, 0, 0, 0>>, << 0, 1, 0, 0>>>>,
       <<<< 0, 0, 0, 1>>, << 0, 0, 1, 0>>, << 0,-1, 0, 0>>, << 1, 0, 0, 0>>>> >>

QUAT_MULTIPLY(i, j, k) == QUAT_MULTIPLY_K[k][i][j]

\* QUAT_MULTIPLY_BY_VEC = QUAT_MULTIPLY[:, 1:, :].
QUAT_MULTIPLY_BY_VEC(i, j, k) == QUAT_MULTIPLY(i, j + 1, k)

\* The contraction of quat_to_rot for one quaternion q: the 9 sums over i, j
\* of reshape(QUAT_TO_ROT, (4, 4, 9))[i, j] * q[i] * q[j].
QuatToRotSum(q) ==
    Arr([k \in 1..9 |->
        RSum(Arr([m \in 1..16 |->
            LET i == ((m - 1) \div 4) + 1
                j == ((m - 1) % 4) + 1
            IN  RMul(RMul(RInt(QUAT_TO_ROT[i][j][((k - 1) \div 3) + 1][((k - 1) % 3) + 1]),
                          q[i]), q[j])]))])

\* rot_tensor of quat_to_rot: the contraction over the leading dimensions.
rot_tensor(normalized_quat) ==
    Arr([b \in 1..Len(normalized_quat) |->
        Arr([n \in 1..Len(normalized_quat[b]) |-> QuatToRotSum(normalized_quat[b][n])])])

\* t_shape.extend([3, 3]): t_shape is a slice of ndarray.shape, a tuple, and a
\* tuple has no attribute 'extend'.
TupleExtend(t_shape, more) == Raise("AttributeError")

\* quat_to_rot(normalized_quat) for a quaternion array (batch, N_res, 4).
quat_to_rot(normalized_quat) ==
    LET t_shape == ShapeLead(rot_tensor(normalized_quat), LeadRank)
        extended == TupleExtend(t_shape, <<3, 3>>)
    IN  IF extended.exc # "" THEN extended
        ELSE Ok(Reshape33(rot_tensor(normalized_quat), LeadRank))

\* quat_multiply_by_vec(quat, vec) for one quaternion and one 3-vector.
QuatMultiplyByVecSum(q, v) ==
    Arr([k \in 1..4 |->
        RSum(Arr([m \in 1..12 |->
            LET i == ((m - 1) \div 3) + 1
                j == ((m - 1) % 3) + 1
            IN  RMul(RMul(RInt(QUAT_MULTIPLY_BY_VEC(i, j, k)), q[i]), v[j])]))])

\* quat_multiply_by_vec(quat, vec) over the leading dimensions.
quat_multiply_by_vec(quat, vec) ==
    LET nb == IF Len(quat) = 1 THEN Len(vec) ELSE Len(quat)
        qb(b) == quat[IF Len(quat) = 1 THEN 1 ELSE b]
        vb(b) == vec[IF Len(vec) = 1 THEN 1 ELSE b]
    IN  Arr([b \in 1..nb |->
            LET nn == IF Len(qb(b)) = 1 THEN Len(vb(b)) ELSE Len(qb(b))
            IN  Arr([n \in 1..nn |->
                    QuatMultiplyByVecSum(qb(b)[IF Len(qb(b)) = 1 THEN 1 ELSE n],
                                         vb(b)[IF Len(vb(b)) = 1 THEN 1 ELSE n])])])

-----------------------------------------------------------------------------
(* The QuatAffine class.  A frame is a record of its three arrays:         *)
(* quaternion (batch, N_res, 4) or None, rotation (batch, N_res, 3, 3) and *)
(* translation (batch, N_res, 3).                                          *)

\* a[..., lo:hi] for an array with r leading dimensions (1-based, inclusive).
RECURSIVE SliceLast(_, _, _, _)
SliceLast(a, r, lo, hi) ==
    IF r = 0 THEN SubSeq(a, lo, hi)
    ELSE Arr([k \in 1..Len(a) |-> SliceLast(a[k], r - 1, lo, hi)])

\* quaternion / np.linalg.norm(quaternion, axis=-1)[..., None].
Normalize(quaternion) ==
    LET q_length == Un("sqrt", SumLast(Un("sq", quaternion, LeadRank + 1), LeadRank),
                       LeadRank)
    IN  Bin("/", quaternion, ExpandDims(q_length, LeadRank), LeadRank + 1)

\* QuatAffine.__init__(quaternion, translation, rotation, normalize).  The
\* outcome also lists the numeric steps that ran before it.
QuatAffine(quaternion, translation, rotation, normalize) ==
    IF quaternion # None /\ ShapeLast(quaternion, LeadRank) # 4
    THEN [exc |-> "AssertionError", val |-> None, steps |-> <<>>]
    ELSE
    LET normalizes == normalize /\ quaternion # None
        q1 == IF normalizes THEN Normalize(quaternion) ELSE quaternion
        derived == IF rotation = None THEN quat_to_rot(q1) ELSE Ok(rotation)
        steps == (IF normalizes THEN <<"normalize">> ELSE <<>>)
                 \o (IF rotation = None THEN <<"quat_to_rot">> ELSE <<>>)
    IN  IF derived.exc # ""
        THEN [exc |-> derived.exc, val |-> None, steps |-> steps]
        ELSE IF ~(ShapeLast(derived.val, LeadRank + 1) = 3
                  /\ ShapeLast(derived.val, LeadRank) = 3)
        THEN [exc |-> "AssertionError", val |-> None, steps |-> steps]
        ELSE IF ShapeLast(translation, LeadRank) # 3
        THEN [exc |-> "AssertionError", val |-> None, steps |-> steps]
        ELSE [exc |-> "", steps |-> steps,
              val |-> [quaternion |-> q1, rotation |-> derived.val,
                       translation |-> translation]]

\* a.detach() on a numpy array: numpy.ndarray has no attribute 'detach'.
Detach(a) == Raise("AttributeError")

\* QuatAffine.stop_rot_gradient(self).
stop_rot_gradient(f) ==
    LET quat == IF f.quaternion # None THEN Detach(f.quaternion) ELSE Ok(None)
        rot == Detach(f.rotation)
    IN  IF quat.exc # "" THEN [exc |-> quat.exc, val |-> None, steps |-> <<>>]
        ELSE IF rot.exc # "" THEN [exc |-> rot.exc, val |-> None, steps |-> <<>>]
        ELSE QuatAffine(quat.val, f.translation, rot.val, FALSE)

\* scale_translation with normalize left at its default, True.
scale_translation_renormalizing(f, position_scale) ==
    QuatAffine(f.quaternion, Scale(position_scale, f.translation, LeadRank + 1),
               f.rotation, TRUE)

\* QuatAffine.scale_translation(self, position_scale).
scale_translation(f, position_scale) ==
    QuatAffine(f.quaternion, Scale(position_scale, f.translation, LeadRank + 1),
               f.rotation, FALSE)

\* QuatAffine.from_tensor(tensor, normalize).
from_tensor(tensor, normalize) ==
    IF ShapeLast(tensor, LeadRank) # 7
    THEN [exc |-> "AssertionError", val |-> None, steps |-> <<>>]
    ELSE QuatAffine(SliceLast(tensor, LeadRank, 1, 4), SliceLast(tensor, LeadRank, 5, 7),
                    None, normalize)

\* QuatAffine.pre_compose(self, update) for an update array (batch, N_res, 6).
pre_compose(f, update) ==
    IF f.quaternion = None
    THEN [exc |-> "TypeError", val |-> None, steps |-> <<>>]
    ELSE
    LET vector_quaternion_update == SliceLast(update, LeadRank, 1, 3)
        trans_update == <<Idx1(update, LeadRank, 4), Idx1(update, LeadRank, 5),
                          Idx1(update, LeadRank, 6)>>
        new_quaternion == Bin("+", f.quaternion,
                              quat_multiply_by_vec(f.quaternion, vector_quaternion_update),
                              LeadRank + 1)
        rotated == StackLast(apply_rot_to_vec(f.rotation, trans_update, FALSE, LeadRank),
                             LeadRank)
        new_translation == Bin("+", f.translation, rotated, LeadRank + 1)
    IN  QuatAffine(new_quaternion, new_translation, None, TRUE)

\* The extra_dims rounds of np.expand_dims in apply_to_point and invert_point:
\* an axis of length 1 is inserted after the r leading dimensions of a.
RECURSIVE ExpandTimes(_, _, _)
ExpandTimes(a, r, extra_dims) ==
    IF extra_dims = 0 THEN a
    ELSE ExpandTimes(ExpandDims(a, r), r + 1, extra_dims - 1)

\* QuatAffine.apply_to_point(self, point, extra_dims): point is a list of three
\* arrays with LeadRank + extra_dims dimensions each.
apply_to_point(f, point, extra_dims) ==
    LET r == LeadRank + extra_dims
        rotation == ExpandTimes(f.rotation, LeadRank, extra_dims)
        translation == ExpandTimes(f.translation, LeadRank, extra_dims)
        rot_point == apply_rot_to_vec(rotation, point, FALSE, r)
    IN  <<Bin("+", rot_point[1], Idx1(translation, r, 1), r),
          Bin("+", rot_point[2], Idx1(translation, r, 2), r),
          Bin("+", rot_point[3], Idx1(translation, r, 3), r)>>

\* QuatAffine.invert_point(self, transformed_point, extra_dims).
invert_point(f, transformed_point, extra_dims) ==
    LET r == LeadRank + extra_dims
        rotation == ExpandTimes(f.rotation, LeadRank, extra_dims)
        translation == ExpandTimes(f.translation, LeadRank, extra_dims)
        rot_point == <<Bin("-", transformed_point[1], Idx1(translation, r, 1), r),
                       Bin("-", transformed_point[2], Idx1(translation, r, 2), r),
                       Bin("-", transformed_point[3], Idx1(translation, r, 3), r)>>
    IN  apply_inverse_rot_to_vec(rotation, rot_point, r)

-----------------------------------------------------------------------------
(* The frame builders.                                                     *)

\* The rotation about the z-axis of make_canonical_transform, from sin and cos.
c1_rot(cos_c1, sin_c1, zeros, ones) ==
    Reshape33(StackLast(<<cos_c1, Un("neg", sin_c1, LeadRank), zeros,
                          sin_c1, cos_c1, zeros,
                          zeros, zeros, ones>>, LeadRank), LeadRank)

\* c2_rot with the signs of its two sines exchanged.
c2_rot_sign_swapped(cos_c2, sin_c2, zeros, ones) ==
    Reshape33(StackLast(<<cos_c2, zeros, Un("neg", sin_c2, LeadRank),
                          zeros, ones, zeros,
                          sin_c2, zeros, cos_c2>>,
                        LeadRank), LeadRank)

\* The rotation about the y-axis of make_canonical_transform.
c2_rot(cos_c2, sin_c2, zeros, ones) ==
    Reshape33(StackLast(<<cos_c2, zeros, sin_c2,
                          zeros, ones, zeros,
                          Un("neg", sin_c2, LeadRank), zeros, cos_c2>>,
                        LeadRank), LeadRank)

\* The rotation about the x-axis of make_canonical_transform.
n_rot(cos_n, sin_n, zeros, ones) ==
    Reshape33(StackLast(<<ones, zeros, zeros,
                          zeros, cos_n, Un("neg", sin_n, LeadRank),
                          zeros, sin_n, cos_n>>, LeadRank), LeadRank)

\* c_rot_matrix of make_canonical_transform from the sines and cosines of the
\* angles c1 and c2.
c_rot_of(cos_c1, sin_c1, cos_c2, sin_c2) ==
    _multiply(c2_rot(cos_c2, sin_c2, Un("zeros_like", sin_c1, LeadRank),
                     Un("ones_like", sin_c1, LeadRank)),
              c1_rot(cos_c1, sin_c1, Un("zeros_like", sin_c1, LeadRank),
                     Un("ones_like", sin_c1, LeadRank)))

\* c_rot_matrix of make_canonical_transform, from c_xyz already shifted by
\* the translation: the rotation that places C on the x-axis.
c_rot_matrix(c_xyz) ==
    Only({ c_rot_of(Bin("/", c_x, norm, LeadRank),
                    Bin("/", Un("neg", c_y, LeadRank), norm, LeadRank),
                    Bin("/", Un("sqrt", Bin("+", Un("sq", c_x, LeadRank),
                                            Un("sq", c_y, LeadRank), LeadRank), LeadRank),
                        norm2, LeadRank),
                    Bin("/", c_z, norm2, LeadRank)) :
           c_x \in {Idx1(c_xyz, LeadRank, 1)},
           c_y \in {Idx1(c_xyz, LeadRank, 2)},
           c_z \in {Idx1(c_xyz, LeadRank, 3)},
           norm \in {Un("sqrt_eps_in",
                        Bin("+", Un("sq", Idx1(c_xyz, LeadRank, 1), LeadRank),
                                 Un("sq", Idx1(c_xyz, LeadRank, 2), LeadRank), LeadRank),
                        LeadRank)},
           norm2 \in {Un("sqrt_eps_out", SumLast(Un("sq", c_xyz, LeadRank + 1), LeadRank),
                         LeadRank)} })

\* The last part of make_canonical_transform, "Place N in the x-y plane",
\* from n_xyz already rotated by c_rot.
place_n_in_xy_plane(n_xyz, c_rot, translation) ==
    Only({ Ok(<<translation,
                _multiply(n_rot(Bin("/", n_y, norm, LeadRank),
                                Bin("/", Un("neg", n_z, LeadRank), norm, LeadRank),
                                Un("zeros_like", n_y, LeadRank),
                                Un("ones_like", n_y, LeadRank)),
                          c_rot)>>) :
           n_y \in {Idx1(n_xyz, LeadRank, 2)},
           n_z \in {Idx1(n_xyz, LeadRank, 3)},
           norm \in {Un("sqrt_eps_in",
                        Bin("+", Un("sq", Idx1(n_xyz, LeadRank, 2), LeadRank),
                                 Un("sq", Idx1(n_xyz, LeadRank, 3), LeadRank), LeadRank),
                        LeadRank)} })

\* The middle part of make_canonical_transform, "Place C on the x-axis", from
\* n_xyz and c_xyz already shifted by the translation.
place_c_on_x_axis(n_xyz, c_xyz, translation) ==
    Only({ place_n_in_xy_plane(
               StackLast(apply_rot_to_vec(c_rot, n_xyz, TRUE, LeadRank), LeadRank),
               c_rot, translation) :
           c_rot \in {c_rot_matrix(c_xyz)} })

\* make_canonical_transform(n_xyz, ca_xyz, c_xyz) on arrays [batch, n_res, 3]:
\* returns (translation, rotation).
make_canonical_transform(n_xyz, ca_xyz, c_xyz) ==
    IF ~(ShapeLast(n_xyz, LeadRank) = 3
         /\ ShapeLead(n_xyz, LeadRank) = ShapeLead(ca_xyz, LeadRank)
         /\ ShapeLead(ca_xyz, LeadRank) = ShapeLead(c_xyz, LeadRank)
         /\ ShapeLast(ca_xyz, LeadRank) = 3 /\ ShapeLast(c_xyz, LeadRank) = 3)
    THEN Raise("AssertionError")
    ELSE Only({ Only({ place_c_on_x_axis(n, c, translation) :
                       n \in {Bin("+", n_xyz, translation, LeadRank + 1)},
                       c \in {Bin("+", c_xyz, translation, LeadRank + 1)} }) :
                translation \in {Un("neg", ca_xyz, LeadRank + 1)} })

\* The transposition left out: the rotation as it is.
Transpose0132_omitted(rot) == rot

\* np.transpose(rotation, (0, 1, 3, 2)).
Transpose0132(rot) ==
    Arr([b \in 1..Len(rot) |-> Arr([n \in 1..Len(rot[b]) |->
        Arr([i \in 1..3 |-> Arr([j \in 1..3 |-> rot[b][n][j][i]])])])])

\* make_transform_from_reference(n_xyz, ca_xyz, c_xyz): returns (rotation, translation).
make_transform_from_reference(n_xyz, ca_xyz, c_xyz) ==
    Only({ IF got.exc # "" THEN got
           ELSE Ok(<<Transpose0132(got.val[2]), Un("neg", got.val[1], LeadRank + 1)>>) :
           got \in {make_canonical_transform(n_xyz, ca_xyz, c_xyz)} })

\* c_rot_matrix of make_canonical_transform_np, laid out (3, 3, batch), from
\* the sines and cosines of the angles c1 and c2.
c_rot_of_np(cos_c1, sin_c1, cos_c2, sin_c2) ==
    _multiply_np(
        << <<cos_c2, Un("zeros_like", sin_c1, 1), sin_c2>>,
           <<Un("zeros_like", sin_c1, 1), Un("ones_like", sin_c1, 1),
             Un("zeros_like", sin_c1, 1)>>,
           <<Un("neg", sin_c2, 1), Un("zeros_like", sin_c1, 1), cos_c2>> >>,
        << <<cos_c1, Un("neg", sin_c1, 1), Un("zeros_like", sin_c1, 1)>>,
           <<sin_c1, cos_c1, Un("zeros_like", sin_c1, 1)>>,
           <<Un("zeros_like", sin_c1, 1), Un("zeros_like", sin_c1, 1),
             Un("ones_like", sin_c1, 1)>> >>)

\* c_rot_matrix of make_canonical_transform_np, from c_xyz [batch, 3] already
\* shifted by the translation.
c_rot_matrix_np(c_xyz) ==
    Only({ c_rot_of_np(Bin("/", c_x, Un("sqrt_eps_in", xy2, 1), 1),
                       Bin("/", Un("neg", c_y, 1), Un("sqrt_eps_in", xy2, 1), 1),
                       Bin("/", Un("sqrt", xy2, 1), Un("sqrt_eps_in", xyz2, 1), 1),
                       Bin("/", c_z, Un("sqrt_eps_in", xyz2, 1), 1)) :
           c_x \in {Idx1(c_xyz, 1, 1)},
           c_y \in {Idx1(c_xyz, 1, 2)},
           c_z \in {Idx1(c_xyz, 1, 3)},
           xy2 \in {Bin("+", Un("sq", Idx1(c_xyz, 1, 1), 1),
                             Un("sq", Idx1(c_xyz, 1, 2), 1), 1)},
           xyz2 \in {Bin("+", Bin("+", Un("sq", Idx1(c_xyz, 1, 1), 1),
                                       Un("sq", Idx1(c_xyz, 1, 2), 1), 1),
                              Un("sq", Idx1(c_xyz, 1, 3), 1), 1)} })

\* np.transpose(m, [2, 0, 1]) of an array (3, 3, batch): an array (batch, 3, 3).
Transpose201(m) ==
    Arr([b \in 1..Len(m[1][1]) |-> Arr([i \in 1..3 |-> Arr([j \in 1..3 |-> m[i][j][b]])])])

\* np.stack(list).T of three arrays (batch,): an array (batch, 3).
StackT(list) == Arr([b \in 1..Len(list[1]) |-> Arr([i \in 1..3 |-> list[i][b]])])

\* The last part of make_canonical_transform_np, "Place N in the x-y plane",
\* from n_xyz already rotated by c_rot.
place_n_in_xy_plane_np(n_xyz, c_rot, translation) ==
    Only({ Ok(<<translation,
                Transpose201(_multiply_np(
                    << <<Un("ones_like", n_y, 1), Un("zeros_like", n_y, 1),
                         Un("zeros_like", n_y, 1)>>,
                       <<Un("zeros_like", n_y, 1),
                         Bin("/", n_y, Un("sqrt_eps_in", yz2, 1), 1),
                         Un("neg", Bin("/", Un("neg", n_z, 1),
                                       Un("sqrt_eps_in", yz2, 1), 1), 1)>>,
                       <<Un("zeros_like", n_y, 1),
                         Bin("/", Un("neg", n_z, 1), Un("sqrt_eps_in", yz2, 1), 1),
                         Bin("/", n_y, Un("sqrt_eps_in", yz2, 1), 1)>> >>,
                    c_rot))>>) :
           n_y \in {Idx1(n_xyz, 1, 2)},
           n_z \in {Idx1(n_xyz, 1, 3)},
           yz2 \in {Bin("+", Un("sq", Idx1(n_xyz, 1, 2), 1),
                             Un("sq", Idx1(n_xyz, 1, 3), 1), 1)} })

\* The middle part of make_canonical_transform_np, "Place C on the x-axis".
place_c_on_x_axis_np(n_xyz, c_xyz, translation) ==
    Only({ place_n_in_xy_plane_np(StackT(apply_rot_to_vec_np(c_rot, n_xyz, TRUE)),
                                  c_rot, translation) :
           c_rot \in {c_rot_matrix_np(c_xyz)} })

\* make_canonical_transform_np(n_xyz, ca_xyz, c_xyz) on arrays [batch, 3]:
\* returns (translation, rotation).
make_canonical_transform_np(n_xyz, ca_xyz, c_xyz) ==
    IF ~(ShapeLast(n_xyz, 1) = 3
         /\ ShapeLead(n_xyz, 1) = ShapeLead(ca_xyz, 1)
         /\ ShapeLead(ca_xyz, 1) = ShapeLead(c_xyz, 1)
         /\ ShapeLast(ca_xyz, 1) = 3 /\ ShapeLast(c_xyz, 1) = 3)
    THEN Raise("AssertionError")
    ELSE Only({ Only({ place_c_on_x_axis_np(n, c, translation) :
                       n \in {Bin("+", n_xyz, translation, 2)},
                       c \in {Bin("+", c_xyz, translation, 2)} }) :
                translation \in {Un("neg", ca_xyz, 2)} })

-----------------------------------------------------------------------------
(* The frame builders as a state machine: a reference triplet is drawn,    *)
(* then one of the builders is called on it (one call per behaviour).      *)

NoFrame == [quaternion |-> None, rotation |-> None, translation |-> None]

Vec3(v) == <<RInt(v[1]), RInt(v[2]), RInt(v[3])>>

\* A triplet member as an array [1, 1, 3] and as an array [1, 3].
AsBatch(v) == << <<v>> >>
AsBatchNp(v) == <<v>>

Disp == (-MaxCoord..MaxCoord) \X (-MaxCoord..MaxCoord) \X (-MaxCoord..MaxCoord)
DispN == (-MaxCoordN..MaxCoordN) \X (-MaxCoordN..MaxCoordN) \X (-MaxCoordN..MaxCoordN)
\* The positions CA is put at: the origin and a point off every axis.
Origins == {<<0, 0, 0>>, <<1, -1, 2>>}

\* The square roots make_canonical_transform takes of C - CA are exact.
ExactC(dc) ==
    /\ IsSquare(dc[1] * dc[1] + dc[2] * dc[2])
    /\ IsSquare(dc[1] * dc[1] + dc[2] * dc[2] + dc[3] * dc[3])

\* The square root make_canonical_transform takes of the rotated N - CA is exact.
ExactN(dc, dn) ==
    \E n1 \in {apply_rot_to_vec(c_rot_matrix(AsBatch(Vec3(dc))),
                                AsBatch(Vec3(dn)), TRUE, LeadRank)} :
        ExactSqrt(RAdd(RSq(n1[2][1][1]), RSq(n1[3][1][1])))

InitCanon ==
    /\ \E ca \in Origins, dc \in Disp :
          /\ ExactC(dc)
          /\ \E dn \in DispN :
                /\ ExactN(dc, dn)
                /\ args = [n_xyz  |-> Vec3(<<ca[1] + dn[1], ca[2] + dn[2], ca[3] + dn[3]>>),
                           ca_xyz |-> Vec3(ca),
                           c_xyz  |-> Vec3(<<ca[1] + dc[1], ca[2] + dc[2], ca[3] + dc[3]>>)]
    /\ op = ""
    /\ ret = Ok(None)
    /\ self = NoFrame
    /\ base = NoFrame
    /\ trail = <<>>

MakeCanonicalTransform ==
    /\ op = ""
    /\ op' = "make_canonical_transform"
    /\ ret' = make_canonical_transform(AsBatch(args.n_xyz), AsBatch(args.ca_xyz),
                                       AsBatch(args.c_xyz))
    /\ UNCHANGED <<args, self, base, trail>>

MakeCanonicalTransformNp ==
    /\ op = ""
    /\ op' = "make_canonical_transform_np"
    /\ ret' = make_canonical_transform_np(AsBatchNp(args.n_xyz), AsBatchNp(args.ca_xyz),
                                          AsBatchNp(args.c_xyz))
    /\ UNCHANGED <<args, self, base, trail>>

MakeTransformFromReference ==
    /\ op = ""
    /\ op' = "make_transform_from_reference"
    /\ ret' = make_transform_from_reference(AsBatch(args.n_xyz), AsBatch(args.ca_xyz),
                                            AsBatch(args.c_xyz))
    /\ UNCHANGED <<args, self, base, trail>>

NextCanon ==
    \/ MakeCanonicalTransform
    \/ MakeCanonicalTransformNp
    \/ MakeTransformFromReference

SpecCanon == InitCanon /\ [][NextCanon]_vars

-----------------------------------------------------------------------------
(* The codec as a state machine: a unit quaternion is drawn, then          *)
(* quat_to_rot is called on it.                                            *)

QuatGrid == (-MaxQuat..MaxQuat) \X (-MaxQuat..MaxQuat)
            \X (-MaxQuat..MaxQuat) \X (-MaxQuat..MaxQuat)

Norm2(q) == q[1] * q[1] + q[2] * q[2] + q[3] * q[3] + q[4] * q[4]

\* The unit quaternion q / |q| of an integer quaternion q of integer length.
UnitOf(q) == Arr([i \in 1..4 |-> Rat(q[i], ISqrt(Norm2(q)))])

InitCodec ==
    /\ \E q \in QuatGrid :
          /\ Norm2(q) > 0
          /\ IsSquare(Norm2(q))
          /\ args = [normalized_quat |-> AsBatch(UnitOf(q))]
    /\ op = ""
    /\ ret = Ok(None)
    /\ self = NoFrame
    /\ base = NoFrame
    /\ trail = <<>>

QuatToRot ==
    /\ op = ""
    /\ op' = "quat_to_rot"
    /\ ret' = quat_to_rot(args.normalized_quat)
    /\ UNCHANGED <<args, self, base, trail>>

NextCodec == QuatToRot

SpecCodec == InitCodec /\ [][NextCodec]_vars

-----------------------------------------------------------------------------
(* The QuatAffine class as a state machine: while no frame is held one is   *)
(* constructed; frames are derived from it, and points are mapped through  *)
(* the current frame.                                                      *)

Mat(m) == Arr([i \in 1..Len(m) |-> Arr([j \in 1..Len(m[i]) |-> RInt(m[i][j])])])
Row(v) == Arr([i \in 1..Len(v) |-> RInt(v[i])])

\* Quaternion arguments: None, (1, 1, 4) arrays holding a unit quaternion, a
\* quaternion of length 2 and a unit quaternion with fractions, an array
\* (1, 1, 3), and an array (2, 1, 4).
QuatArgs ==
    { None,
      AsBatch(Row(<<1, 0, 0, 0>>)),
      AsBatch(Row(<<1, 1, 1, 1>>)),
      AsBatch(<<<<1, 2>>, <<1, 2>>, <<1, 2>>, <<1, 2>>>>),
      AsBatch(Row(<<1, 0, 0>>)),
      << <<Row(<<1, 0, 0, 0>>)>>, <<Row(<<0, 2, 0, 0>>)>> >> }

\* Translation arguments: two arrays (1, 1, 3) and an array (1, 1, 2).
TransArgs ==
    { AsBatch(Row(<<0, 0, 0>>)), AsBatch(Row(<<1, -2, 3>>)), AsBatch(Row(<<1, 2>>)) }

RotIdentity == Mat(<<<<1, 0, 0>>, <<0, 1, 0>>, <<0, 0, 1>>>>)
RotCycle    == Mat(<<<<0, 0, 1>>, <<1, 0, 0>>, <<0, 1, 0>>>>)
RotThreeFour == <<<<<<3, 5>>, <<-4, 5>>, Zero>>, <<<<4, 5>>, <<3, 5>>, Zero>>,
                  <<Zero, Zero, One>>>>
RotScaled   == Mat(<<<<0, 0, 4>>, <<4, 0, 0>>, <<0, 4, 0>>>>)

\* Rotation arguments: None, (1, 1, 3, 3) arrays holding the identity, two
\* rotations that are not symmetric and 4 times a rotation (what the
\* quadratic form of quat_to_rot yields for a quaternion of length 2), an
\* array (1, 1, 2, 2), and an array (2, 1, 3, 3).
RotArgs ==
    { None, AsBatch(RotIdentity), AsBatch(RotCycle), AsBatch(RotThreeFour),
      AsBatch(RotScaled),
      AsBatch(Mat(<<<<1, 0>>, <<0, 1>>>>)),
      << <<RotIdentity>>, <<RotCycle>> >> }

\* Scale factors.
Scales == {RInt(2), RInt(-1), <<1, 2>>}

\* Flat encodings (1, 1, 7) and one array (1, 1, 6).
TensorArgs ==
    { AsBatch(Row(<<1, 0, 0, 0, 1, -2, 3>>)), AsBatch(Row(<<1, 1, 1, 1, 0, 0, 0>>)),
      AsBatch(Row(<<1, 0, 0, 0, 1, -2>>)) }

\* Updates (1, 1, 6): the zero update, a pure translation, and updates whose
\* rotation part v has 1 + |v|^2 a square.
UpdateArgs ==
    { AsBatch(Row(<<0, 0, 0, 0, 0, 0>>)), AsBatch(Row(<<0, 0, 0, 1, 2, 0>>)),
      AsBatch(Row(<<2, 2, 0, 0, 0, 1>>)) }

\* Points: a list of three arrays (1, 1) for extra_dims = 0, and of three
\* arrays (1, 1, 2) for extra_dims = 1.
PointArgs(extra_dims) ==
    IF extra_dims = 0
    THEN { <<AsBatch(RInt(1)), AsBatch(RInt(2)), AsBatch(RInt(3))>>,
           <<AsBatch(RInt(0)), AsBatch(RInt(-1)), AsBatch(<<1, 2>>)>> }
    ELSE { <<AsBatch(<<RInt(1), RInt(0)>>), AsBatch(<<RInt(2), RInt(-1)>>),
             AsBatch(<<RInt(3), <<1, 2>>>>)>> }

Init ==
    /\ args = [quaternion |-> None]
    /\ op = ""
    /\ ret = Ok(None)
    /\ self = NoFrame
    /\ base = NoFrame
    /\ trail = <<>>

\* QuatAffine(quaternion, translation, rotation, normalize).  With neither a
\* quaternion nor a rotation there is nothing to build from; a zero quaternion
\* is outside the constructor's contract.
Construct ==
    \E q \in QuatArgs, t \in TransArgs, R \in RotArgs, nrm \in BOOLEAN :
        /\ self = NoFrame
        /\ ~(q = None /\ R = None)
        /\ LET got == QuatAffine(q, t, R, nrm)
           IN  /\ args' = [quaternion |-> q, translation |-> t, rotation |-> R,
                           normalize |-> nrm]
               /\ op' = "__init__"
               /\ ret' = got
               /\ self' = IF got.exc = "" THEN got.val ELSE NoFrame
               /\ base' = IF got.exc = "" THEN got.val ELSE NoFrame
               /\ trail' = <<>>

\* QuatAffine.from_tensor(tensor, normalize).
FromTensor ==
    \E tensor \in TensorArgs, nrm \in BOOLEAN :
        LET got == from_tensor(tensor, nrm)
        IN  /\ self = NoFrame
            /\ args' = [tensor |-> tensor, normalize |-> nrm]
            /\ op' = "from_tensor"
            /\ ret' = got
            /\ self' = IF got.exc = "" THEN got.val ELSE NoFrame
            /\ base' = IF got.exc = "" THEN got.val ELSE NoFrame
            /\ trail' = <<>>

\* A method that returns a derived frame: on success the derived frame
\* replaces the current one, on an exception the current one is kept.
Derive(name, arg, got) ==
    /\ self # NoFrame
    /\ Len(trail) < MaxOps
    /\ args' = [self |-> self, arg |-> arg]
    /\ op' = name
    /\ ret' = got
    /\ self' = IF got.exc = "" THEN got.val ELSE self
    /\ trail' = IF got.exc = "" THEN Append(trail, [op |-> name, arg |-> arg]) ELSE trail
    /\ UNCHANGED base

StopRotGradient == Derive("stop_rot_gradient", None, stop_rot_gradient(self))

ScaleTranslation ==
    \E k \in Scales : Derive("scale_translation", k, scale_translation(self, k))

PreCompose ==
    \E u \in UpdateArgs : Derive("pre_compose", u, pre_compose(self, u))

ApplyToPoint ==
    \E extra_dims \in 0..1 : \E point \in PointArgs(extra_dims) :
        /\ self # NoFrame
        /\ args' = [self |-> self, point |-> point, extra_dims |-> extra_dims]
        /\ op' = "apply_to_point"
        /\ ret' = Ok(apply_to_point(self, point, extra_dims))
        /\ UNCHANGED <<self, base, trail>>

\* invert_point on what apply_to_point just returned, with the same extra_dims.
InvertPoint ==
    /\ op = "apply_to_point"
    /\ args' = [self |-> self, point |-> args.point, extra_dims |-> args.extra_dims,
                transformed_point |-> ret.val]
    /\ op' = "invert_point"
    /\ ret' = Ok(invert_point(self, ret.val, args.extra_dims))
    /\ UNCHANGED <<self, base, trail>>

Next ==
    \/ Construct
    \/ FromTensor
    \/ StopRotGradient
    \/ ScaleTranslation
    \/ PreCompose
    \/ ApplyToPoint
    \/ InvertPoint

Spec == Init /\ [][Next]_vars

-----------------------------------------------------------------------------
(* Claims about the frame builders (checked under SpecCanon).              *)

\* The triplet of the current call as arrays [1, 1, 3].
ArgN  == AsBatch(args.n_xyz)
ArgCA == AsBatch(args.ca_xyz)
ArgC  == AsBatch(args.c_xyz)

\* The canonical coordinates of the points p [1, 1, 3]: the translation t is
\* added, then the rotation R is applied.  Returns the list (x, y, z).
CanonCoords(t, R, p) == apply_rot_to_vec(R, Bin("+", p, t, LeadRank + 1), TRUE, LeadRank)

OnOrigin(q)    == q[1][1][1] = Zero /\ q[2][1][1] = Zero /\ q[3][1][1] = Zero
OnPositiveX(q) == RPos(q[1][1][1]) /\ q[2][1][1] = Zero /\ q[3][1][1] = Zero
InXYPlane(q)   == q[3][1][1] = Zero

Canonicalized ==
    LET t == ret.val[1]
        R == ret.val[2]
    IN  /\ ret.exc = ""
        /\ OnOrigin(CanonCoords(t, R, ArgCA))
        /\ OnPositiveX(CanonCoords(t, R, ArgC))
        /\ InXYPlane(CanonCoords(t, R, ArgN))

\* C6 as stated: for every reference triplet, the translation and rotation
\* make_canonical_transform returns place CA at the origin, C on the positive
\* x-axis and N in the xy-plane.
C6_AsStated ==
    op = "make_canonical_transform" => Canonicalized

\* C6 amended: for every reference triplet whose C differs from CA, the
\* translation and rotation make_canonical_transform returns place CA at the
\* origin, C on the positive x-axis and N in the xy-plane.
C6_CanonicalPlacement ==
    (op = "make_canonical_transform" /\ args.c_xyz # args.ca_xyz) => Canonicalized

\* C6 witness: make_canonical_transform was called on a triplet with CA off the
\* origin, C off the x- and z-axes' planes and N off the line through CA and C.
C6_Witness ==
    /\ op = "make_canonical_transform"
    /\ args.ca_xyz # Vec3(<<0, 0, 0>>)
    /\ RSub(args.c_xyz[1], args.ca_xyz[1]) # Zero
    /\ RSub(args.c_xyz[3], args.ca_xyz[3]) # Zero
    /\ CanonCoords(ret.val[1], ret.val[2], ArgN)[2][1][1] # Zero

Transposed(R) == <<<<R[1][1], R[2][1], R[3][1]>>,
                   <<R[1][2], R[2][2], R[3][2]>>,
                   <<R[1][3], R[2][3], R[3][3]>>>>

\* The points the round trip of C8 is tried on: the atoms of the triplet and
\* the three unit points.
Probes == {args.n_xyz, args.ca_xyz, args.c_xyz,
           Vec3(<<1, 0, 0>>), Vec3(<<0, 1, 0>>), Vec3(<<0, 0, 1>>)}

\* make_transform_from_reference returned (transpose of R, -t) for the (t, R)
\* of make_canonical_transform.
ReturnsTransposeAndNegation ==
    \A canon \in {make_canonical_transform(ArgN, ArgCA, ArgC)} :
        /\ ret.exc = "" /\ canon.exc = ""
        /\ ret.val[1][1][1] = Transposed(canon.val[2][1][1])
        /\ ret.val[2] = Un("neg", canon.val[1], LeadRank + 1)

\* Rotating by the returned rotation, then adding the returned translation,
\* takes the canonical coordinates of every probe back to the probe.
RoundTrips ==
    \A canon \in {make_canonical_transform(ArgN, ArgCA, ArgC)} :
        /\ canon.exc = ""
        /\ \A p \in Probes :
             \A q \in {StackLast(CanonCoords(canon.val[1], canon.val[2], AsBatch(p)),
                                 LeadRank)} :
                Bin("+", StackLast(apply_rot_to_vec(ret.val[1], q, TRUE, LeadRank),
                                   LeadRank),
                    ret.val[2], LeadRank + 1) = AsBatch(p)

\* C - CA has a non-zero projection on the xy-plane, and N is off the line
\* through CA and C.
NonDegenerate ==
    LET dc == [i \in 1..3 |-> RSub(args.c_xyz[i], args.ca_xyz[i])]
        dn == [i \in 1..3 |-> RSub(args.n_xyz[i], args.ca_xyz[i])]
        cross == <<RSub(RMul(dn[2], dc[3]), RMul(dn[3], dc[2])),
                   RSub(RMul(dn[3], dc[1]), RMul(dn[1], dc[3])),
                   RSub(RMul(dn[1], dc[2]), RMul(dn[2], dc[1]))>>
    IN  /\ ~(dc[1] = Zero /\ dc[2] = Zero)
        /\ cross # <<Zero, Zero, Zero>>

\* C8 as stated: for every reference triplet make_transform_from_reference
\* returns (transpose of R, -t), and rotating first, then translating, maps the
\* canonical coordinates of any point back to the point.
C8_AsStated ==
    op = "make_transform_from_reference" =>
        (ReturnsTransposeAndNegation /\ RoundTrips)

\* C8 amended: for every reference triplet make_transform_from_reference
\* returns (transpose of R, -t); when C - CA has a non-zero projection on the
\* xy-plane and N is off the line through CA and C, rotating first, then
\* translating, maps the canonical coordinates of any point back to the point.
C8_InverseOfCanonical ==
    op = "make_transform_from_reference" =>
        /\ ReturnsTransposeAndNegation
        /\ NonDegenerate => RoundTrips

\* C8 witness: make_transform_from_reference was called on a non-degenerate
\* triplet whose canonical rotation is not symmetric.
C8_Witness ==
    /\ op = "make_transform_from_reference"
    /\ NonDegenerate
    /\ ret.val[1][1][1] # Transposed(ret.val[1][1][1])

-----------------------------------------------------------------------------
(* Claims about the QuatAffine class (checked under Spec).                 *)

\* R times its transpose is the identity, for one 3 x 3 matrix R.
IsOrthonormal(R) ==
    \A i \in 1..3, j \in 1..3 :
        RSum(<<RMul(R[i][1], R[j][1]), RMul(R[i][2], R[j][2]), RMul(R[i][3], R[j][3])>>)
            = (IF i = j THEN One ELSE Zero)

\* The determinant of one 3 x 3 matrix R.
Det(R) ==
    RAdd(RSub(RMul(R[1][1], RSub(RMul(R[2][2], R[3][3]), RMul(R[2][3], R[3][2]))),
              RMul(R[1][2], RSub(RMul(R[2][1], R[3][3]), RMul(R[2][3], R[3][1])))),
         RMul(R[1][3], RSub(RMul(R[2][1], R[3][2]), RMul(R[2][2], R[3][1]))))

\* Every matrix of a rotation array (batch, N_res, 3, 3) is orthonormal.
Orthonormal(rot) ==
    \A b \in 1..Len(rot) : \A n \in 1..Len(rot[b]) : IsOrthonormal(rot[b][n])

\* The frame's rotation and translation and the point's three arrays share
\* their leading dimensions.
SameLeading(f, point) ==
    /\ ShapeLead(f.rotation, LeadRank) = ShapeLead(f.translation, LeadRank)
    /\ ShapeLead(f.translation, LeadRank) = ShapeLead(point[1], LeadRank)

\* C1 as stated: for every frame the constructor accepts and every point p,
\* invert_point(apply_to_point(p, extra_dims), extra_dims) equals p.
C1_AsStated ==
    op = "invert_point" => ret.val = args.point

\* C1 amended: for every frame whose rotation matrices are orthonormal and
\* whose rotation and translation share the point's leading dimensions, and
\* every point p, invert_point(apply_to_point(p, extra_dims), extra_dims)
\* equals p.
C1_RoundTripOnRotations ==
    (op = "invert_point" /\ Orthonormal(self.rotation) /\ SameLeading(self, args.point))
        => ret.val = args.point

\* C1 witness: a point with one extra dimension went through apply_to_point
\* and invert_point of a frame with an orthonormal, non-symmetric rotation
\* and a non-zero translation.
C1_Witness ==
    /\ op = "invert_point"
    /\ args.extra_dims = 1
    /\ Orthonormal(self.rotation)
    /\ SameLeading(self, args.point)
    /\ self.rotation[1][1] # Transposed(self.rotation[1][1])
    /\ self.translation # AsBatch(Row(<<0, 0, 0>>))
    /\ args.transformed_point # args.point

\* The constructor's arguments violate a precondition of the frame.
ViolatesPrecondition(a) ==
    \/ a.quaternion # None /\ ShapeLast(a.quaternion, LeadRank) # 4
    \/ ShapeLast(a.translation, LeadRank) # 3
    \/ a.rotation # None /\ ~(ShapeLast(a.rotation, LeadRank + 1) = 3
                              /\ ShapeLast(a.rotation, LeadRank) = 3)
    \/ a.quaternion # None
         /\ ShapeLead(a.quaternion, LeadRank) # ShapeLead(a.translation, LeadRank)

\* C2: constructing a QuatAffine with any violated precondition ends in an
\* error raised by the constructor's own checks before the normalization and
\* quat_to_rot run, and no frame is produced.
C2_FailFast ==
    (op = "__init__" /\ ViolatesPrecondition(args)) =>
        /\ ret.exc = "AssertionError"
        /\ ret.steps = <<>>
        /\ self = NoFrame

\* The outcome is a frame whose rotation is quat_to_rot of its quaternion.
InSync(got) ==
    /\ got.exc = ""
    /\ quat_to_rot(got.val.quaternion) = Ok(got.val.rotation)

\* C3: a frame constructed from a quaternion and a translation alone, and
\* every frame derived from it by from_tensor, pre_compose, scale_translation
\* and stop_rot_gradient, stores the rotation quat_to_rot gives for its
\* stored quaternion.
C3_RotationInSync ==
    /\ (op = "__init__" /\ args.rotation = None /\ ~ViolatesPrecondition(args))
          => InSync(ret)
    /\ (op = "from_tensor" /\ ShapeLast(args.tensor, LeadRank) = 7) => InSync(ret)
    /\ (op \in {"pre_compose", "scale_translation", "stop_rot_gradient"}
          /\ args.self.quaternion # None
          /\ quat_to_rot(args.self.quaternion) = Ok(args.self.rotation))
          => InSync(ret)

ZeroUpdate == AsBatch(Row(<<0, 0, 0, 0, 0, 0>>))

\* C4: for every frame that holds a quaternion, pre_compose with the all-zero
\* update returns a frame with the same translation, the renormalized
\* quaternion and the rotation derived from it.
C4_ZeroUpdateIsIdentity ==
    (op = "pre_compose" /\ args.arg = ZeroUpdate /\ args.self.quaternion # None) =>
        /\ ret.exc = ""
        /\ ret.val.translation = args.self.translation
        /\ ret.val.quaternion = Normalize(args.self.quaternion)
        /\ quat_to_rot(ret.val.quaternion) = Ok(ret.val.rotation)

\* The frame was derived from base by exactly two scale_translation calls.
TwoScales ==
    /\ Len(trail) = 2
    /\ trail[1].op = "scale_translation"
    /\ trail[2].op = "scale_translation"

\* C5: f.scale_translation(k1).scale_translation(k2) has k1 * k2 times f's
\* translation and f's quaternion and rotation.
C5_ScalesMultiply ==
    TwoScales =>
        /\ self.translation
             = Scale(RMul(trail[1].arg, trail[2].arg), base.translation, LeadRank + 1)
        /\ self.quaternion = base.quaternion
        /\ self.rotation = base.rotation

\* C5 witness: a frame with a non-zero translation and a quaternion that is
\* not of unit length was scaled twice by factors different from 1.
C5_Witness ==
    /\ TwoScales
    /\ trail[1].arg # One /\ trail[2].arg # One
    /\ base.translation # AsBatch(Row(<<0, 0, 0>>))
    /\ base.quaternion = AsBatch(Row(<<1, 1, 1, 1>>))

\* C10: stop_rot_gradient returns a new frame with the quaternion, rotation
\* and translation of the frame it is called on, and raises no error on
\* arrays that carry no differentiation tracking.
C10_StopGradientIsCopy ==
    op = "stop_rot_gradient" =>
        /\ ret.exc = ""
        /\ ret.val = args.self

-----------------------------------------------------------------------------
(* Claims about the codec (checked under SpecCodec).                       *)

\* C9: for every unit quaternion q, quat_to_rot(q) returns a 3 x 3 matrix R
\* with R times its transpose the identity and determinant +1.
C9_UnitQuatGivesRotation ==
    op = "quat_to_rot" =>
        /\ ret.exc = ""
        /\ Orthonormal(ret.val)
        /\ Det(ret.val[1][1]) = One

\* The quadratic form quat_to_rot sums up, before the reshape that fails, is a
\* rotation matrix for every unit quaternion.
QuadraticFormIsRotation ==
    LET R == Reshape33(rot_tensor(args.normalized_quat), LeadRank)
    IN  Orthonormal(R) /\ Det(R[1][1]) = One

-----------------------------------------------------------------------------
(* rot_to_quat, and the round trip through quat_to_rot as a state machine:  *)
(* a valid rotation matrix is drawn, rot_to_quat is called on it, then      *)
(* quat_to_rot is called on the quaternion it returned.                     *)

\* The matrix k of rot_to_quat for one 3 x 3 matrix: the 4 x 4 table of sums
\* and differences of its entries, times 1./3.
rot_to_quat_k(R) ==
    LET xx == R[1][1]  xy == R[1][2]  xz == R[1][3]
        yx == R[2][1]  yy == R[2][2]  yz == R[2][3]
        zx == R[3][1]  zy == R[3][2]  zz == R[3][3]
        third(x) == RMul(<<1, 3>>, x)
    IN  << <<third(RAdd(RAdd(xx, yy), zz)), third(RSub(zy, yz)),
             third(RSub(xz, zx)), third(RSub(yx, xy))>>,
           <<third(RSub(zy, yz)), third(RSub(RSub(xx, yy), zz)),
             third(RAdd(xy, yx)), third(RAdd(xz, zx))>>,
           <<third(RSub(xz, zx)), third(RAdd(xy, yx)),
             third(RSub(RSub(yy, xx), zz)), third(RAdd(yz, zy))>>,
           <<third(RSub(yx, xy)), third(RAdd(xz, zx)),
             third(RAdd(yz, zy)), third(RSub(RSub(zz, xx), yy))>> >>

\* The product k v of a 4 x 4 matrix and a 4-vector.
MatVec4(k, v) ==
    Arr([i \in 1..4 |-> RSum(Arr([j \in 1..4 |-> RMul(k[i][j], v[j])]))])

\* The Rayleigh quotient v k v of a unit vector v.
Rayleigh(k, v) ==
    RSum(Arr([i \in 1..4 |-> RMul(v[i], MatVec4(k, v)[i])]))

\* The squared length of a 4-vector.
Norm2Rat(v) == RSum(Arr([i \in 1..4 |-> RSq(v[i])]))

\* The unit 4-vectors with exact entries.
UnitVectors == {UnitOf(q) : q \in {g \in QuatGrid : Norm2(g) > 0 /\ IsSquare(Norm2(g))}}

\* The vectors np.linalg.eigh(k)[1][..., -1] can be: unit eigenvectors of k
\* for its largest eigenvalue.  eigh fixes no sign, so v and -v are both there.
EighLast(k) ==
    {v \in UnitVectors :
        \E lambda \in {Rayleigh(k, v)} :
            /\ MatVec4(k, v) = Scale(lambda, v, 1)
            /\ \A w \in UnitVectors : ~RPos(RSub(Rayleigh(k, w), lambda))}

\* The values rot_to_quat(rot) can return for a rotation array [1, 1, 3, 3]:
\* one quaternion array [1, 1, 4] for each choice eigh can make.
rot_to_quat(rot) == {AsBatch(v) : v \in EighLast(rot_to_quat_k(rot[1][1]))}

\* The rotation matrices [1, 1, 3, 3] of the unit quaternions with exact entries.
RotationGrid == {Reshape33(rot_tensor(AsBatch(v)), LeadRank) : v \in UnitVectors}

InitRoundTrip ==
    /\ \E R \in RotationGrid :
          /\ Orthonormal(R)
          /\ Det(R[1][1]) = One
          /\ args = [rot |-> R]
    /\ op = ""
    /\ ret = Ok(None)
    /\ self = NoFrame
    /\ base = NoFrame
    /\ trail = <<>>

RotToQuat ==
    /\ op = ""
    /\ op' = "rot_to_quat"
    /\ \E q \in rot_to_quat(args.rot) : ret' = Ok(q)
    /\ UNCHANGED <<args, self, base, trail>>

\* quat_to_rot called on the quaternion rot_to_quat returned.
QuatToRotOfQuat ==
    /\ op = "rot_to_quat"
    /\ op' = "quat_to_rot"
    /\ args' = [rot |-> args.rot, normalized_quat |-> ret.val]
    /\ ret' = quat_to_rot(ret.val)
    /\ UNCHANGED <<self, base, trail>>

NextRoundTrip ==
    \/ RotToQuat
    \/ QuatToRotOfQuat

SpecRoundTrip == InitRoundTrip /\ [][NextRoundTrip]_vars

-----------------------------------------------------------------------------
(* Claims about the round trip (checked under SpecRoundTrip).              *)

\* C11: for every valid rotation matrix R (orthonormal, determinant +1),
\* quat_to_rot(rot_to_quat(R)) equals R, whichever of the two signs
\* rot_to_quat returns for the quaternion.
C11_RoundTrip ==
    op = "quat_to_rot" => ret = Ok(args.rot)

\* rot_to_quat returns a unit quaternion of either sign, and the quadratic form
\* quat_to_rot sums up for it, before the reshape that fails, is R again.
QuadraticFormRestoresRotation ==
    op = "rot_to_quat" =>
        /\ Norm2Rat(ret.val[1][1]) = One
        /\ Reshape33(rot_tensor(ret.val), LeadRank) = args.rot

\* Both signs of the quaternion are returned for some rotation.
BothSignsReturned ==
    /\ op = "rot_to_quat"
    /\ Un("neg", ret.val, LeadRank + 1) \in rot_to_quat(args.rot)
    /\ RPos(RNeg(ret.val[1][1][1]))

-----------------------------------------------------------------------------
(* A further claim about the QuatAffine class (checked under Spec).        *)

\* t + R u[3:6] for one translation t, one 3 x 3 matrix R and one update u.
MovedBy(t, R, u) ==
    Arr([i \in 1..3 |->
        RAdd(t[i], RSum(Arr([j \in 1..3 |-> RMul(R[i][j], u[3 + j])])))])

\* The frame holds a quaternion, and its arrays hold one frame each.
SingleFrame(f) ==
    /\ f.quaternion # None
    /\ ShapeLead(f.quaternion, LeadRank) = <<1, 1>>
    /\ ShapeLead(f.rotation, LeadRank) = <<1, 1>>
    /\ ShapeLead(f.translation, LeadRank) = <<1, 1>>

\* C12: for every frame f and 6-component update u, the frame f.pre_compose(u)
\* returns has the translation f.translation + f.rotation * u[3:6], with the
\* rotation f had before the update.
C12_TranslationMovedByOldRotation ==
    (op = "pre_compose" /\ SingleFrame(args.self)) =>
        /\ ret.exc = ""
        /\ ret.val.translation
             = AsBatch(MovedBy(args.self.translation[1][1], args.self.rotation[1][1],
                               args.arg[1][1]))

=============================================================================
